---- MODULE Spec2Model ----
(***************************************************************************)
(* Model of go_and_delete.go: the OAuth session held in the package-level  *)
(* variable githubClient, the paginated repository list (homeHandler), the *)
(* bulk delete loop (deleteHandler), the callback exchange and logout.     *)
(*                                                                         *)
(* net/http runs every request in its own goroutine.  loginHandler,        *)
(* callbackHandler and logoutHandler are modelled as one step each;        *)
(* homeHandler and deleteHandler block on provider calls between their     *)
(* reads of githubClient, so they are modelled step by step (req.pc) and   *)
(* the other handlers interleave with them.  homeHandler and deleteHandler *)
(* only read githubClient and write their own response, so one of them is  *)
(* kept in flight at a time (req).                                         *)
(*                                                                         *)
(* Strings whose characters matter (page input, repository identifiers)    *)
(* are sequences of one-character strings.                                 *)
(***************************************************************************)
EXTENDS Integers, Sequences, FiniteSets, TLC

VARIABLES githubClient, alive, last, req

vars == <<githubClient, alive, last, req>>

(* ------------------------------ bounds --------------------------------- *)

\* longest list of identifiers posted to /delete
MaxRepos == 2
\* largest previous/next page number the provider reports
MaxPage == 2

(* ------------------------- program constants --------------------------- *)

PerPage == 10
StatusForbidden == 403

\* the nil *github.Client
Nil == "nil"

\* access tokens the provider can hand out; a client handle is identified
\* by the token it is bound to
Tokens == {"tok_1", "tok_2"}

\* values of the callback's code query parameter ("" = absent)
Codes == {"", "abc123"}

\* values of the page query parameter (<<>> = absent)
PageInputs ==
  { <<>>, <<"x">>, <<"0">>, <<"-", "1">>, <<"1">>, <<"3">>, <<"2", "x">> }

\* identifiers posted in the repos form field
Idents ==
  { <<"a", "/", "b">>, <<"a", "b">>, <<"a", "/", "b", "/", "c">> }

RepoLists == UNION { [1..n -> Idents] : n \in 0..MaxRepos }

(* ------------------------- provider responses -------------------------- *)

\* token endpoint: unreachable, a JSON payload without an access_token
\* string, a payload carrying a token, or no answer at all ("hang")
ExchangeResponses ==
  { [kind |-> "unreachable", token |-> Nil],
    [kind |-> "no_token", token |-> Nil],
    [kind |-> "hang", token |-> Nil] }
  \cup { [kind |-> "token", token |-> t] : t \in Tokens }

\* Repositories.List: an error, or a page with its previous/next indicators
ListResponses ==
  { [err |-> TRUE, PrevPage |-> 0, NextPage |-> 0] }
  \cup { [err |-> FALSE, PrevPage |-> a, NextPage |-> b] :
           a \in 0..MaxPage, b \in 0..MaxPage }

\* Repositories.Delete: the HTTP status and the concrete type of the error
\* value the client library returns ("none" = nil error).  The library
\* returns a 403 as *ErrorResponse, or as *RateLimitError when the rate
\* limit is exhausted.
DeleteResponses ==
  { [status |-> 204, etype |-> "none", msg |-> ""],
    [status |-> 403, etype |-> "ErrorResponse", msg |-> "403 Forbidden"],
    [status |-> 403, etype |-> "RateLimitError", msg |-> "403 rate limit"],
    [status |-> 404, etype |-> "ErrorResponse", msg |-> "404 Not Found"] }

\* a provider call that has been sent and has no answer (yet)
NoAnswer == [status |-> 0, etype |-> "pending", msg |-> ""]

(* --------------------------- pure functions ---------------------------- *)

DigitChars == <<"0", "1", "2", "3", "4", "5", "6", "7", "8", "9">>

IsDigit(c) == \E k \in 1..10 : DigitChars[k] = c

DigitVal(c) == (CHOOSE k \in 1..10 : DigitChars[k] = c) - 1

\* number of leading decimal digits of s
RECURSIVE DigitRun(_)
DigitRun(s) ==
  IF s # <<>> /\ IsDigit(Head(s)) THEN 1 + DigitRun(Tail(s)) ELSE 0

RECURSIVE DecimalValue(_)
DecimalValue(s) ==
  IF s = <<>> THEN 0
  ELSE 10 * DecimalValue(SubSeq(s, 1, Len(s) - 1)) + DigitVal(s[Len(s)])

\* fmt.Sscanf(p, "%d", &page): an optional sign, then the longest run of
\* decimal digits; input after the digits is left unread.  With no digit
\* the scan fails and page keeps its value.
Sscanf(p, page) ==
  LET signed == p # <<>> /\ Head(p) \in {"+", "-"}
      rest   == IF signed THEN Tail(p) ELSE p
      n      == DigitRun(rest)
      v      == DecimalValue(SubSeq(rest, 1, n))
  IN  IF n = 0 THEN page
      ELSE IF signed /\ Head(p) = "-" THEN 0 - v ELSE v

\* homeHandler: page := 1; if p != "" { Sscanf(p, "%d", &page) }
ParsePage(p) == IF p # <<>> THEN Sscanf(p, 1) ELSE 1

\* position of the first c in s, 0 when there is none
IndexOf(s, c) ==
  IF \E k \in 1..Len(s) : s[k] = c
  THEN CHOOSE k \in 1..Len(s) : s[k] = c /\ \A j \in 1..(k - 1) : s[j] # c
  ELSE 0

\* strings.Split(s, c): s cut at every c
RECURSIVE Split(_, _)
Split(s, c) ==
  LET k == IndexOf(s, c)
  IN  IF k = 0 THEN <<s>>
      ELSE <<SubSeq(s, 1, k - 1)>> \o Split(SubSeq(s, k + 1, Len(s)), c)

\* HasPrev with the first page taken for "no previous page"
HasPrevFromOne(resp) == resp.PrevPage > 1

HasPrev(resp) == resp.PrevPage > 0

HasNext(resp) == resp.NextPage > 0

\* the three outcomes deleteHandler writes for one identifier
Classify(resp) ==
  IF resp.etype # "none"
  THEN IF resp.etype = "ErrorResponse" /\ resp.status = StatusForbidden
       THEN "Forbidden"
       ELSE "OtherError"
  ELSE "Deleted"

Message(resp) ==
  IF Classify(resp) = "Forbidden"
  THEN "You must have admin rights to delete this repository."
  ELSE resp.msg

(* ------------------------------- state --------------------------------- *)

NoResp == [err |-> FALSE, PrevPage |-> 0, NextPage |-> 0]

NoData == [HasPrev |-> FALSE, HasNext |-> FALSE, PrevPage |-> 0,
           NextPage |-> 0, IsLoggedIn |-> FALSE]

\* the request slot with no request in it
Idle ==
  [h |-> "none", pc |-> "idle", outcome |-> "none",
   p |-> <<>>, page |-> 0, opts |-> <<>>, resp |-> NoResp, data |-> NoData,
   repos |-> <<>>, i |-> 0, calls |-> <<>>, out |-> <<>>]

NoOp ==
  [op |-> "none", code |-> "", exch |-> "none", tok |-> Nil, pre |-> Nil,
   outcome |-> "none", exchanged |-> FALSE]

Init ==
  /\ githubClient = Nil
  /\ alive = TRUE
  /\ last = NoOp
  /\ req = Idle

(* ------------------------------ handlers ------------------------------- *)

\* a login that drops the session it finds before redirecting
LoginClearsSession ==
  /\ alive
  /\ githubClient' = Nil
  /\ last' = [NoOp EXCEPT !.op = "login", !.pre = githubClient,
                          !.outcome = "Redirect"]
  /\ UNCHANGED <<alive, req>>

\* loginHandler: a redirect to the provider's authorization URL
LoginHandler ==
  /\ alive
  /\ last' = [NoOp EXCEPT !.op = "login", !.pre = githubClient,
                          !.outcome = "Redirect"]
  /\ UNCHANGED <<githubClient, alive, req>>

\* the callback without its check of the code parameter
CodeNeverMissing(code) == FALSE

CodeMissing(code) == code = ""

\* exchangeCodeForToken ends the process (log.Fatalf) when the POST fails
\* or the payload holds no access_token string
ExchangeFatal(r) == r.kind \in {"unreachable", "no_token"}

\* a callback that keeps the handle of a session that is already open
KeepOpenSession(token) == IF githubClient # Nil THEN githubClient ELSE token

\* oauth2.NewClient / github.NewClient: the handle bound to the token
NewClient(token) == token

\* client.Do(req) on an http.Client{} with no Timeout: with no answer from
\* the token endpoint the call, and the callback with it, never returns
ExchangeHangs(r) == r.kind = "hang"

CallbackHandler(code, r) ==
  /\ alive
  /\ IF CodeMissing(code)
     THEN /\ last' = [NoOp EXCEPT !.op = "callback", !.code = code,
                                  !.pre = githubClient,
                                  !.outcome = "MissingCode"]
          /\ UNCHANGED <<githubClient, alive>>
     ELSE IF ExchangeHangs(r)
     THEN /\ last' = [NoOp EXCEPT !.op = "callback", !.code = code,
                                  !.pre = githubClient, !.exch = r.kind,
                                  !.exchanged = TRUE, !.outcome = "Blocked"]
          /\ UNCHANGED <<githubClient, alive>>
     ELSE IF ExchangeFatal(r)
     THEN /\ last' = [NoOp EXCEPT !.op = "callback", !.code = code,
                                  !.pre = githubClient, !.exch = r.kind,
                                  !.exchanged = TRUE, !.outcome = "Fatal"]
          /\ alive' = FALSE
          /\ UNCHANGED githubClient
     ELSE /\ githubClient' = NewClient(r.token)
          /\ last' = [NoOp EXCEPT !.op = "callback", !.code = code,
                                  !.pre = githubClient, !.exch = r.kind,
                                  !.tok = r.token, !.exchanged = TRUE,
                                  !.outcome = "Redirect"]
          /\ UNCHANGED alive
  /\ UNCHANGED req

\* a logout that leaves the handle in place
LogoutKeepsClient == githubClient

\* the value logoutHandler stores in githubClient
LogoutClient == Nil

LogoutHandler ==
  /\ alive
  /\ githubClient' = LogoutClient
  /\ last' = [NoOp EXCEPT !.op = "logout", !.pre = githubClient,
                          !.outcome = "Redirect"]
  /\ UNCHANGED <<alive, req>>

\* homeHandler up to the provider call: the nil check and the page input
HomeStart(p) ==
  /\ alive
  /\ req.pc \in {"idle", "done"}
  /\ req' = IF githubClient = Nil
            THEN [Idle EXCEPT !.h = "home", !.pc = "done", !.p = p,
                              !.outcome = "Unauthenticated"]
            ELSE [Idle EXCEPT !.h = "home", !.pc = "list", !.p = p,
                              !.page = ParsePage(p)]
  /\ UNCHANGED <<githubClient, alive, last>>

\* githubClient.Repositories.List: githubClient is read again; a nil
\* handle panics, and net/http recovers the panic and drops the request.
\* The call runs under context.Background() on a client with no timeout:
\* with no answer from the provider the handler stays in it ("blocked").
HomeList ==
  /\ alive
  /\ req.h = "home" /\ req.pc = "list"
  /\ IF githubClient = Nil
     THEN req' = [req EXCEPT !.pc = "done", !.outcome = "PanicNil"]
     ELSE LET sent == [Page |-> req.page, PerPage |-> PerPage,
                       client |-> githubClient]
          IN  \/ \E r \in ListResponses :
                   req' = IF r.err
                          THEN [req EXCEPT !.pc = "done", !.opts = <<sent>>,
                                           !.outcome = "ProviderError"]
                          ELSE [req EXCEPT !.pc = "render",
                                           !.opts = <<sent>>, !.resp = r]
              \/ req' = [req EXCEPT !.pc = "blocked", !.opts = <<sent>>]
  /\ UNCHANGED <<githubClient, alive, last>>

\* the page data handed to the template
HomeRender ==
  /\ alive
  /\ req.h = "home" /\ req.pc = "render"
  /\ req' = [req EXCEPT !.pc = "done", !.outcome = "Page",
                        !.data = [HasPrev |-> HasPrev(req.resp),
                                  HasNext |-> HasNext(req.resp),
                                  PrevPage |-> req.resp.PrevPage,
                                  NextPage |-> req.resp.NextPage,
                                  IsLoggedIn |-> githubClient # Nil]]
  /\ UNCHANGED <<githubClient, alive, last>>

\* deleteHandler: r.ParseForm(); repos := r.Form["repos"]
DeleteStart(repos) ==
  /\ alive
  /\ req.pc \in {"idle", "done"}
  /\ req' = [Idle EXCEPT !.h = "delete", !.pc = "loop", !.repos = repos,
                         !.i = 1]
  /\ UNCHANGED <<githubClient, alive, last>>

\* one iteration of the loop over repos, or the "Go Back" link after it.
\* parts[1] panics (index out of range) when the identifier holds no "/",
\* and githubClient.Repositories panics on a nil handle; net/http recovers
\* the panic and drops the request with what was written so far.
\* Repositories.Delete runs under context.Background() on a client with no
\* timeout: with no answer from the provider the loop stays in that call.
DeleteStep ==
  /\ alive
  /\ req.h = "delete" /\ req.pc = "loop"
  /\ IF req.i > Len(req.repos)
     THEN req' = [req EXCEPT !.pc = "done", !.outcome = "OK"]
     ELSE LET repo  == req.repos[req.i]
              parts == Split(repo, "/")
          IN  IF Len(parts) < 2
              THEN req' = [req EXCEPT !.pc = "done",
                                      !.outcome = "PanicIndex"]
              ELSE IF githubClient = Nil
              THEN req' = [req EXCEPT !.pc = "done", !.outcome = "PanicNil"]
              ELSE LET call == [idx |-> req.i, repo |-> repo,
                                owner |-> parts[1], name |-> parts[2],
                                client |-> githubClient, resp |-> NoAnswer]
                   IN  \/ \E r \in DeleteResponses :
                            req' = [req EXCEPT
                                      !.calls = Append(@, [call EXCEPT
                                                             !.resp = r]),
                                      !.out = Append(@, [repo |-> repo,
                                                         kind |-> Classify(r),
                                                         msg |-> Message(r)]),
                                      !.i = @ + 1]
                       \/ req' = [req EXCEPT !.pc = "blocked",
                                             !.calls = Append(@, call)]
  /\ UNCHANGED <<githubClient, alive, last>>

Next ==
  \/ LoginHandler
  \/ \E code \in Codes, r \in ExchangeResponses : CallbackHandler(code, r)
  \/ LogoutHandler
  \/ \E p \in PageInputs : HomeStart(p)
  \/ HomeList
  \/ HomeRender
  \/ \E repos \in RepoLists : DeleteStart(repos)
  \/ DeleteStep

Spec == Init /\ [][Next]_vars

(* ------------------------------- claims -------------------------------- *)

DeleteDone == req.h = "delete" /\ req.pc = "done"

\* C1: a finished deleteAll has written exactly one result per input
\* identifier, in input order, whatever the outcome of each item
\* (success, 403, other provider error, malformed identifier).
C1_OneResultPerIdentifier ==
  DeleteDone =>
    /\ Len(req.out) = Len(req.repos)
    /\ \A k \in 1..Len(req.repos) : req.out[k].repo = req.repos[k]

\* C2: every delete the provider answered with status 403 is reported as
\* Forbidden, whatever error value the client library returned for it.
C2_ForbiddenOn403 ==
  req.h = "delete" =>
    \A k \in 1..Len(req.out) :
      req.calls[k].resp.status = StatusForbidden
        => req.out[k].kind = "Forbidden"

\* C3: a listPage or deleteAll that ends while the session is
\* Unauthenticated ends with an Unauthenticated error, has issued no
\* provider request and has not crashed its handler.
C3_UnauthenticatedFails ==
  [][ (githubClient = Nil /\ req' # req /\ req'.pc = "done")
        => /\ req'.outcome = "Unauthenticated"
           /\ req'.calls = <<>>
           /\ req'.opts = <<>> ]_vars

\* C4: a callback whose token exchange fails (endpoint unreachable, or no
\* access_token string in the payload) ends with TokenExchangeFailed, the
\* session as it was and the service still running.
C4_ExchangeFailureRecoverable ==
  (last.op = "callback" /\ last.exch \in {"unreachable", "no_token"})
    => /\ alive
       /\ last.outcome = "TokenExchangeFailed"
       /\ githubClient = last.pre

\* C5: a callback without a code ends with MissingCode, sends no token
\* exchange request and leaves the session exactly as it was.
C5_MissingCode ==
  (last.op = "callback" /\ last.code = "")
    => /\ last.outcome = "MissingCode"
       /\ ~last.exchanged
       /\ githubClient = last.pre
       /\ alive

C5_Witness ==
  /\ last.op = "callback" /\ last.code = ""
  /\ last.outcome = "MissingCode"
  /\ last.pre \in Tokens /\ githubClient = last.pre

\* C6: after logout the session is Unauthenticated whatever it was before,
\* so a second logout leaves the state of the first; logout never errors,
\* also on a session that is already Unauthenticated.
C6_LogoutClears ==
  last.op = "logout"
    => /\ githubClient = Nil
       /\ last.outcome = "Redirect"
       /\ alive

C6_Witness ==
  /\ last.op = "logout" /\ last.pre \in Tokens /\ githubClient = Nil

\* what the claim calls a number <= 0 or a non-numeric (or absent) page
IsNumeric(p) ==
  LET signed == p # <<>> /\ Head(p) \in {"+", "-"}
      rest   == IF signed THEN Tail(p) ELSE p
  IN  rest # <<>> /\ DigitRun(rest) = Len(rest)

InvalidPage(p) == ~IsNumeric(p) \/ Sscanf(p, 1) <= 0

\* C7: for a page input that is absent, not numeric or a number <= 0, the
\* list request asks the provider for page 1 with page size 10.  (A Page
\* option of 0 is left out of the query, which the provider serves as
\* page 1, so 0 counts as page 1 here.)
C7_InvalidPageIsFirstPage ==
  (req.h = "home" /\ req.opts # <<>> /\ InvalidPage(req.p))
    => /\ req.opts[1].Page \in {0, 1}
       /\ req.opts[1].PerPage = 10

\* the split the claim describes: at the first "/" only
OwnerOf(id) == SubSeq(id, 1, IndexOf(id, "/") - 1)

NameOf(id) == SubSeq(id, IndexOf(id, "/") + 1, Len(id))

\* C8: every delete request carries as owner what precedes the first "/"
\* of its identifier and as name all that follows it; an identifier
\* without "/" gets a MalformedIdentifier result and no delete request.
C8_SplitAtFirstSlash ==
  req.h = "delete" =>
    /\ \A k \in 1..Len(req.calls) :
         /\ IndexOf(req.calls[k].repo, "/") # 0
         /\ req.calls[k].owner = OwnerOf(req.calls[k].repo)
         /\ req.calls[k].name = NameOf(req.calls[k].repo)
    /\ req.pc = "done" =>
         \A k \in 1..Len(req.repos) :
           IndexOf(req.repos[k], "/") = 0
             => /\ k <= Len(req.out)
                /\ req.out[k].kind = "MalformedIdentifier"

\* C9: a successful exchange leaves the session bound to the token the
\* provider returned for it, whatever the session was; the one handle the
\* session holds is that of the latest successful exchange, and none once
\* a logout has followed it.
C9_SessionIsLatestExchange ==
  /\ (last.op = "callback" /\ last.exch = "token")
       => (githubClient = last.tok /\ last.outcome = "Redirect")
  /\ last.op = "logout" => githubClient = Nil
  /\ (last.op \in {"none", "login"} \/ last.outcome \in {"MissingCode", "Fatal"})
       => githubClient = last.pre
  /\ githubClient \in Tokens \cup {Nil}

C9_Witness ==
  /\ last.op = "callback" /\ last.exch = "token"
  /\ last.pre \in Tokens /\ last.pre # last.tok
  /\ githubClient = last.tok

\* C10: on every page rendered, hasPrev is false exactly when the
\* provider's previous-page indicator is 0, and hasNext is false exactly
\* when its next-page indicator is 0.
C10_HasPrevHasNext ==
  (req.h = "home" /\ req.outcome = "Page")
    => /\ (req.data.HasPrev = FALSE) <=> (req.resp.PrevPage = 0)
       /\ (req.data.HasNext = FALSE) <=> (req.resp.NextPage = 0)

\* listPage(3) with prevPage = 2, nextPage = 0
C10_Witness ==
  /\ req.h = "home" /\ req.outcome = "Page"
  /\ req.opts[1].Page = 3
  /\ req.resp.PrevPage = 2 /\ req.resp.NextPage = 0
  /\ req.data.HasPrev /\ ~req.data.HasNext

\* a step of the request in flight
RequestStep == HomeList \/ HomeRender \/ DeleteStep

\* C11: every provider call is bounded by a timeout: a request waiting on
\* a call the provider never answers can always take its next step (the
\* call fails and deleteAll moves on to the next identifier).
C11_CallsTimeOut ==
  req.pc = "blocked" => ENABLED RequestStep

Malformed(id) == IndexOf(id, "/") = 0

\* identifier k of the request has had a delete request issued for it
Attempted(k) == \E c \in 1..Len(req.calls) : req.calls[c].idx = k

\* identifier k of the request has failed: it is malformed, or its result
\* is not Deleted
FailedItem(k) ==
  \/ Malformed(req.repos[k])
  \/ (k <= Len(req.out) /\ req.out[k].kind # "Deleted")

\* C12: within one deleteAll the delete requests go out in input order,
\* at most one per identifier occurrence (none is repeated), with at most
\* one unanswered at a time; and once the request is finished, every
\* well-formed identifier that follows a failed one has been attempted.
C12_SequentialOneShot ==
  req.h = "delete" =>
    /\ \A c \in 1..Len(req.calls) :
         /\ req.calls[c].idx \in 1..Len(req.repos)
         /\ req.calls[c].repo = req.repos[req.calls[c].idx]
         /\ req.calls[c].resp = NoAnswer => c = Len(req.calls)
    /\ \A c, d \in 1..Len(req.calls) :
         c < d => req.calls[c].idx < req.calls[d].idx
    /\ req.pc = "done" =>
         \A j, k \in 1..Len(req.repos) :
           (j < k /\ FailedItem(j) /\ ~Malformed(req.repos[k]))
             => Attempted(k)

\* C13: a step that changes the session is a logout or a callback whose
\* exchange returned a token; login, listPage, deleteAll and a callback
\* without code leave the session as it was.
C13_SessionFrame ==
  [][ githubClient' # githubClient
        => /\ req' = req
           /\ \/ last'.op = "logout"
              \/ (last'.op = "callback" /\ last'.exch = "token") ]_vars

\* a login after a finished deleteAll, the session still in place
C13_Witness ==
  /\ githubClient \in Tokens
  /\ last.op = "login" /\ last.pre = githubClient
  /\ req.h = "delete" /\ req.pc = "done" /\ req.out # <<>>

\* C14: a request that was Authenticated when it began uses one client
\* handle for all its provider calls: it never reaches a call with a nil
\* handle and never sends two calls under different tokens.  (homeHandler
\* passes its entry check only when Authenticated; for deleteHandler the
\* handle of the first delete request stands for the one it began with.)
C14_OneHandlePerRequest ==
  /\ req.h = "home" => req.outcome # "PanicNil"
  /\ req.h = "delete" =>
       /\ \A c \in 1..Len(req.calls) :
            req.calls[c].client = req.calls[1].client
       /\ req.calls # <<>> => req.outcome # "PanicNil"

\* C15: an identifier is reported Deleted exactly when the delete request
\* for the owner and name the whole identifier denotes returned without
\* error; a provider error other than 403 is reported as OtherError with
\* the provider's message.
C15_DeletedMeansDeleted ==
  req.h = "delete" =>
    \A k \in 1..Len(req.out) :
      LET c == req.calls[k]
          o == req.out[k]
      IN  /\ (o.kind = "Deleted")
               <=> /\ c.resp.etype = "none"
                   /\ c.owner = OwnerOf(o.repo)
                   /\ c.name = NameOf(o.repo)
          /\ (c.resp.etype # "none" /\ c.resp.status # StatusForbidden)
               => (o.kind = "OtherError" /\ o.msg = c.resp.msg)

====
